---------------------------- MODULE Spec2Model ----------------------------
(***************************************************************************)
(* Signoria backend: the quiz attempt tracker (app/services/quiz_services, *)
(* app/repository/quiz_repository, app/api/routes/quiz_routes) and the     *)
(* user deletion that cascades into it, over the relational schema of the  *)
(* alembic migrations.                                                     *)
(*                                                                         *)
(* Every request runs on a connection of its own (core/db_connection.py,   *)
(* get_db).  psycopg2 opens the transaction at the request's first         *)
(* statement and PostgreSQL runs it READ COMMITTED, so every SQL statement *)
(* is one atomic step that sees what was committed before it, and NOW() is *)
(* the time of the request's first statement.  A request is therefore a    *)
(* process whose position (pc) is the next statement of its handler.       *)
(***************************************************************************)
EXTENDS Integers, Sequences, FiniteSets

(***************************************************************************)
(* Bounds of the model.                                                    *)
(***************************************************************************)
NumProcs == 2          \* requests that can be in flight together
NumUsers == 2          \* user ids that hold a token
MaxRequests == 3       \* requests begun in one behaviour
MaxAttemptId == 2      \* attempt ids a request may name (0 names no row)
MaxInitAnswers == 3    \* answer rows stored before the first request
OptionsPerQuestion == 2 \* options of each question of the catalog
ShortQuizQuestions == 3 \* questions of the catalog's shorter quiz

(***************************************************************************)
(* Program constants.                                                      *)
(***************************************************************************)
SeededQuestions == 10  \* seeder.py: 4 + 4 + 2 questions per quiz
JWT_EXPIRATION_HOURS == 24  \* security.py: lifetime of an access token

UserIds == 1..NumUsers

(***************************************************************************)
(* The quiz catalog (tables quizzes, quiz_questions, quiz_options).  No    *)
(* route writes it.  Quiz 1 is a quiz as the seeder makes them; quiz 2 is  *)
(* a shorter quiz and quiz 3 a quizzes row without quiz_questions rows,    *)
(* both of which the schema allows; 4 names no quiz.  Question ids         *)
(* 1..SeededQuestions belong to quiz 1 and the next ShortQuizQuestions ids *)
(* to quiz 2, in created_at order.  Question k owns the options            *)
(* (k-1)*OptionsPerQuestion+1 .. k*OptionsPerQuestion in created_at order; *)
(* exactly one is correct and its place varies with k (the seeder shuffles *)
(* the options).                                                           *)
(***************************************************************************)
Quizzes == {1, 2, 3}
QuizIdInputs == {1, 2, 3, 4}
Questions == 1..(SeededQuestions + ShortQuizQuestions)
Options == 1..((SeededQuestions + ShortQuizQuestions) * OptionsPerQuestion)

NoRow == [id |-> 0]

QuizOfQuestion(k) == IF k <= SeededQuestions THEN 1 ELSE 2

QuestionOfOption(o) == ((o - 1) \div OptionsPerQuestion) + 1

CorrectOption(k) == (k - 1) * OptionsPerQuestion + 1 + (k % OptionsPerQuestion)

\* Faulty variant (C4): every id names a quiz.
get_quiz_by_id_any(quiz_id) == [id |-> quiz_id]

get_quiz_by_id(quiz_id) ==
    IF quiz_id \in Quizzes THEN [id |-> quiz_id] ELSE NoRow

get_question_by_id(question_id) ==
    IF question_id \in Questions
    THEN [id |-> question_id, quiz_id |-> QuizOfQuestion(question_id)]
    ELSE NoRow

get_questions_by_quiz(quiz_id) ==
    IF quiz_id = 1
    THEN [k \in 1..SeededQuestions |-> get_question_by_id(k)]
    ELSE IF quiz_id = 2
    THEN [k \in 1..ShortQuizQuestions |-> get_question_by_id(SeededQuestions + k)]
    ELSE << >>

get_option_by_id(option_id) ==
    IF option_id \in Options
    THEN [id |-> option_id, question_id |-> QuestionOfOption(option_id),
          is_correct |-> (option_id = CorrectOption(QuestionOfOption(option_id)))]
    ELSE NoRow

get_options_by_question(question_id) ==
    IF question_id \in Questions
    THEN [j \in 1..OptionsPerQuestion |->
             get_option_by_id((question_id - 1) * OptionsPerQuestion + j)]
    ELSE << >>

(***************************************************************************)
(* Passwords and tokens (app/core/security.py).  An argon2 hash holds the  *)
(* scheme, the salt drawn for it and a digest that only the hashed         *)
(* password reproduces.  A token is absent (the cookie or header is not    *)
(* sent), the empty string, or a JWT with its subject (0: no sub claim),   *)
(* its expiry time and whether its signature was made with the server's    *)
(* key.  Time is counted in requests, and a token lives longer than any    *)
(* number of them the model serves.                                        *)
(***************************************************************************)
hash_password(password, salt) ==
    [scheme |-> "argon2", salt |-> salt, digest |-> password]

\* Faulty variant (C18): every password verifies.
verify_password_any(plain_password, hashed_password) ==
    hashed_password.scheme = "argon2"

verify_password(plain_password, hashed_password) ==
    /\ hashed_password.scheme = "argon2"
    /\ hashed_password.digest = plain_password

NoToken == [kind |-> "none"]
EmptyToken == [kind |-> "empty"]

create_access_token(user_id, t) ==
    [kind |-> "jwt", sub |-> user_id, exp |-> t + JWT_EXPIRATION_HOURS,
     signed |-> TRUE]

decode_access_token(token, t) ==
    IF ~token.signed THEN [error |-> "Invalid token"]
    ELSE IF token.exp <= t THEN [error |-> "Token has expired"]
    ELSE [sub |-> token.sub]

\* Faulty variant (C19): the bearer header is preferred to the cookie.
get_current_user_header_first(cookie, credentials, t) ==
    LET token == IF credentials # NoToken THEN credentials ELSE cookie
    IN  IF token.kind \in {"none", "empty"}
        THEN [http |-> 401, detail |-> "Not authenticated"]
        ELSE IF "error" \in DOMAIN decode_access_token(token, t)
        THEN [http |-> 401,
              detail |-> <<"Token validation failed",
                           decode_access_token(token, t).error>>]
        ELSE IF decode_access_token(token, t).sub = 0
        THEN [http |-> 401, detail |-> "Invalid token. Please login again."]
        ELSE [user_id |-> decode_access_token(token, t).sub]

\* token = request.cookies.get("access_token"); if not token and credentials:
\* token = credentials.credentials; if not token: 401; decode, 401 on failure
get_current_user(cookie, credentials, t) ==
    LET token == IF cookie.kind \notin {"none", "empty"} THEN cookie
                 ELSE IF credentials # NoToken THEN credentials
                 ELSE cookie
    IN  IF token.kind \in {"none", "empty"}
        THEN [http |-> 401, detail |-> "Not authenticated"]
        ELSE IF "error" \in DOMAIN decode_access_token(token, t)
        THEN [http |-> 401,
              detail |-> <<"Token validation failed",
                           decode_access_token(token, t).error>>]
        ELSE IF decode_access_token(token, t).sub = 0
        THEN [http |-> 401, detail |-> "Invalid token. Please login again."]
        ELSE [user_id |-> decode_access_token(token, t).sub]

(***************************************************************************)
(* Table users.  The rows stored before the first request: user u has      *)
(* email u, username u and password 1.  email and username are UNIQUE.     *)
(***************************************************************************)
InitUsers ==
    {[id |-> u, email |-> u, username |-> u,
      hashed_password |-> hash_password(1, 0)] : u \in UserIds}

user_ids(rows) == {u.id : u \in rows}

\* Faulty variant (C16): the table without its UNIQUE constraints.
users_without_unique(rows) == TRUE

users_constraints(rows) ==
    \A u, v \in rows :
        (u.id = v.id \/ u.email = v.email \/ u.username = v.username) => u = v

NoUser == [id |-> 0]

get_by_id(rows, user_id) ==
    IF \E u \in rows : u.id = user_id
    THEN CHOOSE u \in rows : u.id = user_id
    ELSE NoUser

\* Faulty variant (C17): the lookup by email finds nothing.
get_by_email_none(rows, email) == NoUser

get_by_email(rows, email) ==
    IF \E u \in rows : u.email = email
    THEN CHOOSE u \in rows : u.email = email
    ELSE NoUser

get_by_username(rows, username) ==
    IF \E u \in rows : u.username = username
    THEN CHOOSE u \in rows : u.username = username
    ELSE NoUser

\* INSERT INTO users ..: the table with the new row, or the table as it was
\* when the row violates a constraint (psycopg2 raises IntegrityError).
create(rows, id, email, username, hashed_password) ==
    LET row == [id |-> id, email |-> email, username |-> username,
                hashed_password |-> hashed_password]
    IN  IF users_constraints(rows \cup {row}) THEN rows \cup {row} ELSE rows

\* The columns of a users row that UserResponse keeps.
UserResponse(user) ==
    [id |-> user.id, email |-> user.email, username |-> user.username]

(***************************************************************************)
(* State.                                                                  *)
(*   users     rows of table users: id, email, username, hashed_password   *)
(*   attempts  rows of attempts_quiz                                       *)
(*   answers   rows of attempts_quiz_answer, in created_at order           *)
(*   uuids     number of attempt ids drawn from uuid4 so far               *)
(*   now       number of requests begun: the clock NOW() reads             *)
(*   inflight  the requests being served: each one's inputs, the start     *)
(*             time t of its transaction, its next statement pc and its    *)
(*             handler's locals                                            *)
(*   last      the request that returned last, with its response           *)
(*   lastStart history: the attempt id the last successful StartOrResume   *)
(*             of each (user, quiz) returned                               *)
(*   submitted history: the attempt ids of the SubmitQuiz calls that have  *)
(*             completed, in the order of their UPDATE                     *)
(***************************************************************************)
VARIABLES users, attempts, answers, uuids, now, inflight, last,
          lastStart, submitted

vars == <<users, attempts, answers, uuids, now, inflight, last,
          lastStart, submitted>>

(***************************************************************************)
(* Table attempts_quiz (migration 6d8a19867db7) and its repository.        *)
(***************************************************************************)
AttemptRow(attempt_id, quiz_id, user_id, total_questions, t) ==
    [id |-> attempt_id, quiz_id |-> quiz_id, user_id |-> user_id, score |-> 0,
     total_questions |-> total_questions, submitted_at |-> t,
     is_completed |-> FALSE]

\* The constraints the INSERT must meet: both foreign keys and
\* CHECK (total_questions > 0); score = 0 meets CHECK (score >= 0).
\* Faulty variant (C28): the table without CHECK (total_questions > 0).
attempts_quiz_without_check(usrs, quiz_id, user_id, total_questions) ==
    /\ quiz_id \in Quizzes
    /\ user_id \in usrs

attempts_quiz_constraints(usrs, quiz_id, user_id, total_questions) ==
    /\ quiz_id \in Quizzes
    /\ user_id \in usrs
    /\ total_questions > 0

\* Faulty variant (C3): the INSERT without the table's constraints.
create_attempt_unchecked(atts, usrs, attempt_id, quiz_id, user_id, total_questions, t) ==
    atts \cup {AttemptRow(attempt_id, quiz_id, user_id, total_questions, t)}

\* INSERT INTO attempts_quiz ... VALUES (id, quiz, user, 0, total, NOW(), false).
\* A violated constraint raises and stores nothing.
create_attempt(atts, usrs, attempt_id, quiz_id, user_id, total_questions, t) ==
    IF attempts_quiz_constraints(usrs, quiz_id, user_id, total_questions)
    THEN atts \cup {AttemptRow(attempt_id, quiz_id, user_id, total_questions, t)}
    ELSE atts

get_attempt_by_id(atts, attempt_id) ==
    IF \E a \in atts : a.id = attempt_id
    THEN CHOOSE a \in atts : a.id = attempt_id
    ELSE NoRow

\* WHERE quiz_id = .. AND user_id = .. AND is_completed = false
OngoingRows(atts, quiz_id, user_id) ==
    {a \in atts : a.quiz_id = quiz_id /\ a.user_id = user_id /\ ~a.is_completed}

\* Faulty variant (C2): the lookup finds no row.
get_ongoing_attempt_none(atts, quiz_id, user_id) == NoRow

\* Faulty variant (C27): the query without `AND is_completed = false`.
get_ongoing_attempt_completed_too(atts, quiz_id, user_id) ==
    LET rows == {a \in atts : a.quiz_id = quiz_id /\ a.user_id = user_id}
    IN  IF rows = {} THEN NoRow
        ELSE CHOOSE a \in rows : \A b \in rows : b.id <= a.id

\* ... ORDER BY submitted_at DESC LIMIT 1
get_ongoing_attempt(atts, quiz_id, user_id) ==
    LET rows == OngoingRows(atts, quiz_id, user_id)
    IN  IF rows = {} THEN NoRow
        ELSE CHOOSE a \in rows : \A b \in rows : b.submitted_at <= a.submitted_at

\* Faulty variant (C10): the UPDATE skips a row that is already completed.
update_attempt_score_once(atts, attempt_id, score, t) ==
    {IF a.id = attempt_id /\ ~a.is_completed
     THEN [a EXCEPT !.score = score, !.is_completed = TRUE, !.submitted_at = t]
     ELSE a : a \in atts}

\* Faulty variant (C24): the UPDATE adds the new score to the stored one.
update_attempt_score_adding(atts, attempt_id, score, t) ==
    {IF a.id = attempt_id
     THEN [a EXCEPT !.score = a.score + score, !.is_completed = TRUE,
                    !.submitted_at = t]
     ELSE a : a \in atts}

\* UPDATE attempts_quiz SET score = .., is_completed = true, submitted_at = NOW()
\* WHERE id = ..
update_attempt_score(atts, attempt_id, score, t) ==
    {IF a.id = attempt_id
     THEN [a EXCEPT !.score = score, !.is_completed = TRUE, !.submitted_at = t]
     ELSE a : a \in atts}

(***************************************************************************)
(* Table attempts_quiz_answer and its repository.                          *)
(***************************************************************************)
\* Faulty variant (C6): the table without UNIQUE (attempt_id, question_id).
attempts_quiz_answer_without_unique(ans, atts, attempt_id, question_id, option_id) ==
    /\ \E a \in atts : a.id = attempt_id
    /\ question_id \in Questions
    /\ option_id \in Options

\* The constraints the INSERT must meet: the three foreign keys and
\* UNIQUE (attempt_id, question_id).
attempts_quiz_answer_constraints(ans, atts, attempt_id, question_id, option_id) ==
    /\ \E a \in atts : a.id = attempt_id
    /\ question_id \in Questions
    /\ option_id \in Options
    /\ \A i \in DOMAIN ans :
          ~(ans[i].attempt_id = attempt_id /\ ans[i].question_id = question_id)

\* INSERT INTO attempts_quiz_answer ... VALUES (id, attempt, question, option, NOW()).
\* A violated constraint raises and stores nothing.
create_attempt_answer(ans, atts, answer_id, attempt_id, question_id, option_id) ==
    IF attempts_quiz_answer_constraints(ans, atts, attempt_id, question_id, option_id)
    THEN Append(ans, [id |-> answer_id, attempt_id |-> attempt_id,
                      question_id |-> question_id,
                      selected_option_id |-> option_id])
    ELSE ans

\* SELECT ... WHERE attempt_id = .. ORDER BY created_at ASC
get_attempt_answers(ans, attempt_id) ==
    SelectSeq(ans, LAMBDA r : r.attempt_id = attempt_id)

\* SELECT COUNT(*) FROM attempts_quiz_answer WHERE attempt_id = ..
count_answers(ans, attempt_id) == Len(get_attempt_answers(ans, attempt_id))

\* Faulty variant (C12): the join ordered by created_at DESC.
get_answered_questions_details_desc(ans, attempt_id) ==
    LET rows == get_attempt_answers(ans, attempt_id)
    IN  [i \in DOMAIN rows |->
            [answer_id |-> rows[Len(rows) + 1 - i].id,
             question_id |-> rows[Len(rows) + 1 - i].question_id,
             selected_option_id |-> rows[Len(rows) + 1 - i].selected_option_id,
             is_correct |-> get_option_by_id(
                                rows[Len(rows) + 1 - i].selected_option_id).is_correct]]

\* The join of an attempt's answers with their question and option rows.
get_answered_questions_details(ans, attempt_id) ==
    LET rows == SelectSeq(get_attempt_answers(ans, attempt_id),
                          LAMBDA r : /\ get_question_by_id(r.question_id) # NoRow
                                     /\ get_option_by_id(r.selected_option_id) # NoRow)
    IN  [i \in DOMAIN rows |->
            [answer_id |-> rows[i].id, question_id |-> rows[i].question_id,
             selected_option_id |-> rows[i].selected_option_id,
             is_correct |-> get_option_by_id(rows[i].selected_option_id).is_correct]]

(***************************************************************************)
(* Table users: DELETE FROM users WHERE id = .. and the ON DELETE CASCADE  *)
(* of attempts_quiz.user_id and attempts_quiz_answer.attempt_id.           *)
(***************************************************************************)
\* Faulty variant (C30): the foreign key without ON DELETE CASCADE effect.
cascade_attempts_none(atts, user_id) == atts

cascade_attempts(atts, user_id) == {a \in atts : a.user_id # user_id}

cascade_answers(ans, atts, user_id) ==
    SelectSeq(ans, LAMBDA r : \E a \in cascade_attempts(atts, user_id) :
                                  a.id = r.attempt_id)

(***************************************************************************)
(* Pure parts of the service layer.                                        *)
(***************************************************************************)
\* Faulty variant (C8): every answer counts.
correct_count_all(rows) == Len(rows)

\* submit_quiz's loop: the answers whose selected option exists and is correct.
correct_count(rows) ==
    Cardinality({i \in DOMAIN rows :
        /\ get_option_by_id(rows[i].selected_option_id) # NoRow
        /\ get_option_by_id(rows[i].selected_option_id).is_correct})

\* Faulty variant (C9): the hundredths cut off instead of rounded.
percentage_truncated(part, total) == (10000 * part) \div total

\* round(part / total * 100, 2), in hundredths of a percent.  Python rounds
\* a tie to the even neighbour; a tie needs 32 | total and so is out of
\* reach of a quiz of SeededQuestions questions.
percentage(part, total) ==
    LET n == 10000 * part
        q == n \div total
        r == n % total
    IN  IF 2 * r < total THEN q
        ELSE IF 2 * r > total THEN q + 1
        ELSE IF q % 2 = 0 THEN q ELSE q + 1

\* get_attempt_result's loop over the answers.
answers_detail(rows) ==
    [i \in DOMAIN rows |->
        [question_id |-> rows[i].question_id,
         selected_option_id |-> rows[i].selected_option_id,
         is_correct |-> IF get_option_by_id(rows[i].selected_option_id) # NoRow
                        THEN get_option_by_id(rows[i].selected_option_id).is_correct
                        ELSE FALSE]]

(***************************************************************************)
(* Initial state: the database as earlier sessions left it.  User 1 has    *)
(* started quiz 1 or quiz 2 (the row create_attempt writes) and up to      *)
(* MaxInitAnswers answers were stored for it through create_attempt_answer,*)
(* each with one of the question's options: the user went through the     *)
(* quiz's questions in order from the first, and an insert repeated for    *)
(* the question just answered was rejected.                                *)
(***************************************************************************)
InitAttempts(quiz_id) ==
    create_attempt({}, UserIds, 1, quiz_id, 1,
                   Len(get_questions_by_quiz(quiz_id)), 0)

\* Faulty variant (C25): answers stored with an option of any question.
InitAnswerInputs_any_option(quiz_id) ==
    {c \in Questions \X Options :
        \E k \in 1..MaxInitAnswers :
           /\ k <= Len(get_questions_by_quiz(quiz_id))
           /\ get_questions_by_quiz(quiz_id)[k].id = c[1]}

InitAnswerInputs(quiz_id) ==
    {c \in Questions \X Options :
        /\ \E k \in 1..MaxInitAnswers :
              /\ k <= Len(get_questions_by_quiz(quiz_id))
              /\ get_questions_by_quiz(quiz_id)[k].id = c[1]
        /\ QuestionOfOption(c[2]) = c[1]}

InitAnswerCalls(quiz_id) ==
    {calls \in UNION {[1..n -> InitAnswerInputs(quiz_id)] : n \in 0..MaxInitAnswers} :
        \A i \in DOMAIN calls :
            IF i = 1 THEN calls[i][1] = get_questions_by_quiz(quiz_id)[1].id
            ELSE calls[i][1] - calls[i - 1][1] \in {0, 1}}

RECURSIVE InsertAll(_, _, _)
InsertAll(atts, calls, n) ==
    IF n = 0 THEN << >>
    ELSE LET ans == InsertAll(atts, calls, n - 1)
         IN  create_attempt_answer(ans, atts, Len(ans) + 1, 1,
                                   calls[n][1], calls[n][2])

InitAnswers(quiz_id) ==
    {InsertAll(InitAttempts(quiz_id), calls, Len(calls)) :
        calls \in InitAnswerCalls(quiz_id)}

NoReq == [op |-> "none", user_id |-> 0, quiz_id |-> 0, attempt_id |-> 0,
          question_id |-> 0, option_id |-> 0, is_correct |-> FALSE, t |-> 0,
          pc |-> "return", attempt |-> NoRow, n |-> 0,
          email |-> 0, username |-> 0, password |-> 0,
          cookie |-> NoToken, bearer |-> NoToken]

NoResp == [http |-> 0]

Init ==
    /\ users = InitUsers
    /\ \E quiz_id \in {1, 2} :
          /\ attempts = InitAttempts(quiz_id)
          /\ answers \in InitAnswers(quiz_id)
    /\ uuids = 1
    /\ now = 0
    /\ inflight = {}
    /\ last = [req |-> NoReq, resp |-> NoResp]
    /\ lastStart = [k \in UserIds \X Quizzes |-> 0]
    /\ submitted = << >>

(***************************************************************************)
(* Inputs of the requests.                                                 *)
(***************************************************************************)
AttemptIdInputs == 0..MaxAttemptId
QuestionIdInputs == {0, 1}
OptionIdInputs == {0, 1}

\* A request arrives while a worker is free; its first statement opens the
\* transaction whose start time NOW() returns.
Arrive ==
    /\ Cardinality(inflight) < NumProcs
    /\ now < MaxRequests
    /\ now' = now + 1

\* The handler of request r returns (or raises) resp.
Return(r, resp) ==
    /\ inflight' = inflight \ {r}
    /\ last' = [req |-> [r EXCEPT !.pc = "return"], resp |-> resp]

\* The handler of request r goes on to statement r2.pc with locals r2.
Goto(r, r2) ==
    /\ inflight' = (inflight \ {r}) \cup {r2}
    /\ UNCHANGED last

HTTP404(detail) == [http |-> 404, detail |-> detail]

\* An exception no handler catches: the framework answers 500.
Raised(error) == [http |-> 500, error |-> error]

(***************************************************************************)
(* POST /api/quizzes/{quiz_id}/attempts: QuizService.start_quiz_attempt.   *)
(***************************************************************************)
StartData(attempt, is_resumed) ==
    [http |-> 200, attempt_id |-> attempt.id, quiz_id |-> attempt.quiz_id,
     user_id |-> attempt.user_id, total_questions |-> attempt.total_questions,
     is_completed |-> attempt.is_completed, is_resumed |-> is_resumed]

\* quiz = get_quiz_by_id(..); if not quiz: return None (the route: 404)
start_quiz_attempt(user_id, quiz_id) ==
    /\ Arrive
    /\ LET r == [NoReq EXCEPT !.op = "start", !.user_id = user_id,
                              !.quiz_id = quiz_id, !.t = now + 1]
       IN  IF get_quiz_by_id(quiz_id) = NoRow
           THEN Return(r, HTTP404("Quiz not found"))
           ELSE Goto(r, [r EXCEPT !.pc = "get_ongoing_attempt"])
    /\ UNCHANGED <<users, attempts, answers, uuids, lastStart, submitted>>

\* ongoing_attempt = get_ongoing_attempt(..); if ongoing_attempt: return it
start_get_ongoing_attempt(r) ==
    /\ r.pc = "get_ongoing_attempt"
    /\ LET ongoing == get_ongoing_attempt(attempts, r.quiz_id, r.user_id)
       IN  IF ongoing # NoRow
           THEN /\ Return(r, StartData(ongoing, TRUE))
                /\ lastStart' = [lastStart EXCEPT
                                    ![<<r.user_id, r.quiz_id>>] = ongoing.id]
           ELSE /\ Goto(r, [r EXCEPT !.pc = "create_attempt"])
                /\ UNCHANGED lastStart
    /\ UNCHANGED <<users, attempts, answers, uuids, now, submitted>>

\* questions = get_questions_by_quiz(..); attempt_id = uuid4();
\* attempt = create_attempt(.., len(questions))
start_create_attempt(r) ==
    /\ r.pc = "create_attempt"
    /\ LET total == Len(get_questions_by_quiz(r.quiz_id))
           id == uuids + 1
           after == create_attempt(attempts, user_ids(users), id, r.quiz_id, r.user_id,
                                   total, r.t)
       IN  /\ uuids' = id
           /\ attempts' = after
           /\ IF get_attempt_by_id(after, id) # NoRow
              THEN /\ Return(r, StartData(get_attempt_by_id(after, id), FALSE))
                   /\ lastStart' = [lastStart EXCEPT
                                       ![<<r.user_id, r.quiz_id>>] = id]
              ELSE /\ Return(r, Raised("IntegrityError"))
                   /\ UNCHANGED lastStart
    /\ UNCHANGED <<users, answers, now, submitted>>

(***************************************************************************)
(* POST .../attempts/{attempt_id}/answers and .../camera-answers:          *)
(* QuizService.submit_answer and submit_camera_answer.  The routes wrap    *)
(* whatever envelope the service returns as {"status": "success", data}.   *)
(* After the two attempt guards both services call                         *)
(* QuizRepository.get_answer_by_attempt_question, which class              *)
(* QuizRepository does not define: the attribute lookup raises             *)
(* AttributeError before any further statement runs.                       *)
(***************************************************************************)
Envelope(code) == [http |-> 200, status |-> "success", error |-> TRUE,
                   code |-> code]

\* Faulty variant (C7): the guards without the completion check.
answer_guards_open(attempt) ==
    IF attempt = NoRow THEN Envelope("ATTEMPT_NOT_FOUND")
    ELSE Raised("AttributeError")

\* attempt = get_attempt_by_id(..) and the guards on it
answer_guards(attempt) ==
    IF attempt = NoRow THEN Envelope("ATTEMPT_NOT_FOUND")
    ELSE IF attempt.is_completed THEN Envelope("ATTEMPT_COMPLETED")
    ELSE Raised("AttributeError")

submit_answer(attempt_id, question_id, selected_option_id) ==
    /\ Arrive
    /\ Return([NoReq EXCEPT !.op = "answer", !.attempt_id = attempt_id,
                            !.question_id = question_id,
                            !.option_id = selected_option_id, !.t = now + 1],
              answer_guards(get_attempt_by_id(attempts, attempt_id)))
    /\ UNCHANGED <<users, attempts, answers, uuids, lastStart, submitted>>

submit_camera_answer(attempt_id, question_id, is_correct) ==
    /\ Arrive
    /\ Return([NoReq EXCEPT !.op = "camera", !.attempt_id = attempt_id,
                            !.question_id = question_id,
                            !.is_correct = is_correct, !.t = now + 1],
              answer_guards(get_attempt_by_id(attempts, attempt_id)))
    /\ UNCHANGED <<users, attempts, answers, uuids, lastStart, submitted>>

(***************************************************************************)
(* POST .../attempts/{attempt_id}/submit: QuizService.submit_quiz.         *)
(***************************************************************************)
\* attempt = get_attempt_by_id(..); if not attempt: return None (404)
submit_quiz(attempt_id) ==
    /\ Arrive
    /\ LET r == [NoReq EXCEPT !.op = "submit", !.attempt_id = attempt_id,
                              !.t = now + 1]
       IN  IF get_attempt_by_id(attempts, attempt_id) = NoRow
           THEN Return(r, HTTP404("Attempt not found"))
           ELSE Goto(r, [r EXCEPT !.pc = "get_attempt_answers"])
    /\ UNCHANGED <<users, attempts, answers, uuids, lastStart, submitted>>

\* answers = get_attempt_answers(..) and the loop that counts the correct ones
submit_get_attempt_answers(r) ==
    /\ r.pc = "get_attempt_answers"
    /\ Goto(r, [r EXCEPT !.pc = "update_attempt_score",
                         !.n = correct_count(
                                  get_attempt_answers(answers, r.attempt_id))])
    /\ UNCHANGED <<users, attempts, answers, uuids, now, lastStart, submitted>>

SubmitData(attempt) ==
    [http |-> 200, attempt_id |-> attempt.id, quiz_id |-> attempt.quiz_id,
     user_id |-> attempt.user_id, score |-> attempt.score,
     total_questions |-> attempt.total_questions,
     percentage |-> percentage(attempt.score, attempt.total_questions),
     is_completed |-> attempt.is_completed,
     submitted_at |-> attempt.submitted_at]

\* attempt = update_attempt_score(.., correct_count) and the response built
\* from the row the UPDATE returns; no row (the attempt was deleted since
\* the first statement) makes attempt None and attempt["id"] raise.
submit_update_attempt_score(r) ==
    /\ r.pc = "update_attempt_score"
    /\ LET after == update_attempt_score(attempts, r.attempt_id, r.n, r.t)
           row == get_attempt_by_id(after, r.attempt_id)
       IN  /\ attempts' = after
           /\ IF row # NoRow
              THEN /\ Return(r, SubmitData(row))
                   /\ submitted' = Append(submitted, row.id)
              ELSE /\ Return(r, Raised("TypeError"))
                   /\ UNCHANGED submitted
    /\ UNCHANGED <<users, answers, uuids, now, lastStart>>

(***************************************************************************)
(* GET .../attempts/{attempt_id}/progress: QuizService.get_attempt_progress*)
(***************************************************************************)
\* QuizRepository.get_attempt_progress, first SELECT; no row: 404
get_attempt_progress(attempt_id) ==
    /\ Arrive
    /\ LET r == [NoReq EXCEPT !.op = "progress", !.attempt_id = attempt_id,
                              !.t = now + 1]
           attempt == get_attempt_by_id(attempts, attempt_id)
       IN  IF attempt = NoRow
           THEN Return(r, HTTP404("Attempt not found"))
           ELSE Goto(r, [r EXCEPT !.pc = "count_answers", !.attempt = attempt])
    /\ UNCHANGED <<users, attempts, answers, uuids, lastStart, submitted>>

\* QuizRepository.get_attempt_progress, SELECT COUNT(*)
progress_count_answers(r) ==
    /\ r.pc = "count_answers"
    /\ Goto(r, [r EXCEPT !.pc = "get_answered_questions_details",
                         !.n = count_answers(answers, r.attempt_id)])
    /\ UNCHANGED <<users, attempts, answers, uuids, now, lastStart, submitted>>

ProgressData(attempt, answered, details) ==
    [http |-> 200, attempt_id |-> attempt.id, quiz_id |-> attempt.quiz_id,
     user_id |-> attempt.user_id, total_questions |-> attempt.total_questions,
     answered_questions |-> answered,
     remaining_questions |-> attempt.total_questions - answered,
     progress_percentage |-> IF attempt.total_questions > 0
                             THEN percentage(answered, attempt.total_questions)
                             ELSE 0,
     is_completed |-> attempt.is_completed,
     answered_details |-> details]

\* answered_details = get_answered_questions_details(..) and the response
progress_get_answered_questions_details(r) ==
    /\ r.pc = "get_answered_questions_details"
    /\ Return(r, ProgressData(r.attempt, r.n,
                    get_answered_questions_details(answers, r.attempt_id)))
    /\ UNCHANGED <<users, attempts, answers, uuids, now, lastStart, submitted>>

(***************************************************************************)
(* GET .../attempts/{attempt_id}/result: QuizService.get_attempt_result.   *)
(***************************************************************************)
\* attempt = get_attempt_by_id(..); if not attempt: return None (404)
get_attempt_result(attempt_id) ==
    /\ Arrive
    /\ LET r == [NoReq EXCEPT !.op = "result", !.attempt_id = attempt_id,
                              !.t = now + 1]
           attempt == get_attempt_by_id(attempts, attempt_id)
       IN  IF attempt = NoRow
           THEN Return(r, HTTP404("Attempt not found"))
           ELSE Goto(r, [r EXCEPT !.pc = "result_answers", !.attempt = attempt])
    /\ UNCHANGED <<users, attempts, answers, uuids, lastStart, submitted>>

ResultData(attempt, rows) ==
    [http |-> 200, attempt_id |-> attempt.id, quiz_id |-> attempt.quiz_id,
     user_id |-> attempt.user_id, score |-> attempt.score,
     total_questions |-> attempt.total_questions,
     percentage |-> percentage(attempt.score, attempt.total_questions),
     is_completed |-> attempt.is_completed,
     submitted_at |-> attempt.submitted_at,
     answers |-> answers_detail(rows)]

\* answers = get_attempt_answers(..), the loop over them and the response
result_get_attempt_answers(r) ==
    /\ r.pc = "result_answers"
    /\ Return(r, ResultData(r.attempt, get_attempt_answers(answers, r.attempt_id)))
    /\ UNCHANGED <<users, attempts, answers, uuids, now, lastStart, submitted>>

(***************************************************************************)
(* DELETE /api/users/{user_id}: delete_user and UserRepository.delete.     *)
(* current_user_id is the subject of the caller's token, which stays valid *)
(* after the user row is gone.  The request's quiz_id field holds the path *)
(* parameter user_id.                                                      *)
(***************************************************************************)
delete_user(current_user_id, user_id) ==
    /\ Arrive
    /\ LET r == [NoReq EXCEPT !.op = "delete", !.user_id = current_user_id,
                              !.quiz_id = user_id, !.t = now + 1]
       IN  IF user_id # current_user_id
           THEN /\ Return(r, [http |-> 403, detail |-> "Cannot delete other users"])
                /\ UNCHANGED <<users, attempts, answers>>
           ELSE IF get_by_id(users, user_id) = NoUser
           THEN /\ Return(r, HTTP404("User not found"))
                /\ UNCHANGED <<users, attempts, answers>>
           ELSE /\ Return(r, [http |-> 200, message |-> "User deleted successfully"])
                /\ users' = {u \in users : u.id # user_id}
                /\ attempts' = cascade_attempts(attempts, user_id)
                /\ answers' = cascade_answers(answers, attempts, user_id)
    /\ UNCHANGED <<uuids, lastStart, submitted>>

(***************************************************************************)
(* POST /api/auth/register: UserService.register.  Each UserRepository     *)
(* call runs in a connection of its own, so the two lookups and the insert *)
(* are three transactions.                                                 *)
(***************************************************************************)
EmailInputs == 1..(NumUsers + 1)
UsernameInputs == 1..(NumUsers + 1)
PasswordInputs == {1, 2}

HTTP400(detail) == [http |-> 400, detail |-> detail]
HTTP401(detail) == [http |-> 401, detail |-> detail]

\* The TokenResponse of register and login, with the cookie _set_auth_cookie
\* sets on the response.
TokenResponse(user, token) ==
    [http |-> 200, access_token |-> token, cookie |-> token,
     user |-> UserResponse(user)]

\* existing_user = UserRepository.get_by_email(..); if existing_user: 400
register(email, username, password) ==
    /\ Arrive
    /\ LET r == [NoReq EXCEPT !.op = "register", !.email = email,
                              !.username = username, !.password = password,
                              !.t = now + 1]
       IN  IF get_by_email(users, email) # NoUser
           THEN Return(r, HTTP400("Email already registered"))
           ELSE Goto(r, [r EXCEPT !.pc = "get_by_username"])
    /\ UNCHANGED <<users, attempts, answers, uuids, lastStart, submitted>>

\* existing_user = UserRepository.get_by_username(..); if existing_user: 400
register_get_by_username(r) ==
    /\ r.pc = "get_by_username"
    /\ IF get_by_username(users, r.username) # NoUser
       THEN Return(r, HTTP400("Username already taken"))
       ELSE Goto(r, [r EXCEPT !.pc = "create"])
    /\ UNCHANGED <<users, attempts, answers, uuids, now, lastStart, submitted>>

\* hashed_pwd = hash_password(..); user = UserRepository.create(..); the
\* token, the cookie and the response.  (RETURNING gives the inserted row,
\* so `if not user` never holds.)
register_create(r) ==
    /\ r.pc = "create"
    /\ uuids' = uuids + 1
    /\ LET id == NumUsers + uuids + 1
           after == create(users, id, r.email, r.username,
                           hash_password(r.password, r.t))
       IN  /\ users' = after
           /\ IF get_by_id(after, id) # NoUser
              THEN Return(r, TokenResponse(get_by_id(after, id),
                                           create_access_token(id, r.t)))
              ELSE Return(r, Raised("IntegrityError"))
    /\ UNCHANGED <<attempts, answers, now, lastStart, submitted>>

(***************************************************************************)
(* POST /api/auth/login: UserService.login.                                *)
(***************************************************************************)
login(email, password) ==
    /\ Arrive
    /\ LET r == [NoReq EXCEPT !.op = "login", !.email = email,
                              !.password = password, !.t = now + 1]
           user == get_by_email(users, email)
       IN  IF user = NoUser
           THEN Return(r, HTTP401("Invalid email or password"))
           ELSE IF ~verify_password(password, user.hashed_password)
           THEN Return(r, HTTP401("Invalid email or password"))
           ELSE Return(r, TokenResponse(user, create_access_token(user.id, r.t)))
    /\ UNCHANGED <<users, attempts, answers, uuids, lastStart, submitted>>

(***************************************************************************)
(* GET /api/users/me: get_current_user and UserService.get_user.  The      *)
(* request carries the access_token cookie and the Authorization header's  *)
(* bearer credentials.                                                     *)
(***************************************************************************)
CookieInputs ==
    {NoToken, EmptyToken, create_access_token(1, 0),
     [create_access_token(1, 0) EXCEPT !.exp = 0],
     [create_access_token(1, 0) EXCEPT !.signed = FALSE],
     create_access_token(0, 0)}

BearerInputs ==
    {NoToken, EmptyToken, create_access_token(1, 0), create_access_token(2, 0),
     [create_access_token(1, 0) EXCEPT !.signed = FALSE]}

get_user(rows, user_id) ==
    IF get_by_id(rows, user_id) = NoUser THEN HTTP404("User not found")
    ELSE [http |-> 200, user |-> UserResponse(get_by_id(rows, user_id))]

get_current_user_profile(cookie, bearer) ==
    /\ Arrive
    /\ LET r == [NoReq EXCEPT !.op = "me", !.cookie = cookie,
                              !.bearer = bearer, !.t = now + 1]
           current == get_current_user(cookie, bearer, r.t)
       IN  IF "http" \in DOMAIN current
           THEN Return(r, current)
           ELSE Return(r, get_user(users, current.user_id))
    /\ UNCHANGED <<users, attempts, answers, uuids, lastStart, submitted>>

(***************************************************************************)
(* Specifications.  Spec interleaves the statements of up to NumProcs      *)
(* requests; SpecSeq serves one request at a time to its end.              *)
(***************************************************************************)
Begin ==
    \/ \E u \in UserIds, q \in QuizIdInputs : start_quiz_attempt(u, q)
    \/ \E a \in AttemptIdInputs, q \in QuestionIdInputs, o \in OptionIdInputs :
          submit_answer(a, q, o)
    \/ \E a \in AttemptIdInputs, q \in QuestionIdInputs, c \in BOOLEAN :
          submit_camera_answer(a, q, c)
    \/ \E a \in AttemptIdInputs : submit_quiz(a)
    \/ \E a \in AttemptIdInputs : get_attempt_progress(a)
    \/ \E a \in AttemptIdInputs : get_attempt_result(a)
    \/ \E c \in UserIds, u \in UserIds : delete_user(c, u)

Idle == inflight = {}

BeginSeq ==
    \/ \E u \in UserIds, q \in QuizIdInputs : Idle /\ start_quiz_attempt(u, q)
    \/ \E a \in AttemptIdInputs, q \in QuestionIdInputs, o \in OptionIdInputs :
          Idle /\ submit_answer(a, q, o)
    \/ \E a \in AttemptIdInputs, q \in QuestionIdInputs, c \in BOOLEAN :
          Idle /\ submit_camera_answer(a, q, c)
    \/ \E a \in AttemptIdInputs : Idle /\ submit_quiz(a)
    \/ \E a \in AttemptIdInputs : Idle /\ get_attempt_progress(a)
    \/ \E a \in AttemptIdInputs : Idle /\ get_attempt_result(a)
    \/ \E c \in UserIds, u \in UserIds : Idle /\ delete_user(c, u)

Continue ==
    \/ \E r \in inflight : start_get_ongoing_attempt(r)
    \/ \E r \in inflight : start_create_attempt(r)
    \/ \E r \in inflight : submit_get_attempt_answers(r)
    \/ \E r \in inflight : submit_update_attempt_score(r)
    \/ \E r \in inflight : progress_count_answers(r)
    \/ \E r \in inflight : progress_get_answered_questions_details(r)
    \/ \E r \in inflight : result_get_attempt_answers(r)

Next == Begin \/ Continue

Spec == Init /\ [][Next]_vars

NextSeq == BeginSeq \/ Continue

SpecSeq == Init /\ [][NextSeq]_vars

(***************************************************************************)
(* GET /api/quizzes/{quiz_id}: QuizService.get_quiz_details.  The rows of  *)
(* quiz_options are given with all their columns, as a function of the set *)
(* `correct` of the option ids whose is_correct is true, so that the       *)
(* response can be computed from catalogs that differ in that column only. *)
(* content is coded by the option's id.  The handler only reads the        *)
(* catalog, which no route writes, so its statements are one step.         *)
(***************************************************************************)
CatalogCorrect == {o \in Options : get_option_by_id(o).is_correct}

quiz_options(correct, question_id) ==
    [j \in DOMAIN get_options_by_question(question_id) |->
        [id |-> get_options_by_question(question_id)[j].id,
         question_id |-> question_id,
         content |-> get_options_by_question(question_id)[j].id,
         category |-> "text",
         is_correct |-> (get_options_by_question(question_id)[j].id \in correct)]]

\* Faulty variant (C14): the options with all their columns.
options_data_all(options) == options

options_data(options) ==
    [j \in DOMAIN options |->
        [id |-> options[j].id, content |-> options[j].content,
         category |-> options[j].category]]

question_data(correct, question) ==
    [id |-> question.id, question_text |-> question.id,
     question_category |-> "image_alphabet", explanation |-> question.id,
     options |-> options_data(quiz_options(correct, question.id))]

get_quiz_details(correct, quiz_id) ==
    IF get_quiz_by_id(quiz_id) = NoRow THEN NoRow
    ELSE [http |-> 200, id |-> quiz_id,
          total_questions |-> Len(get_questions_by_quiz(quiz_id)),
          questions |-> [i \in DOMAIN get_questions_by_quiz(quiz_id) |->
                            question_data(correct,
                                          get_questions_by_quiz(quiz_id)[i])]]

get_quiz(quiz_id) ==
    /\ Arrive
    /\ Return([NoReq EXCEPT !.op = "detail", !.quiz_id = quiz_id, !.t = now + 1],
              IF get_quiz_details(CatalogCorrect, quiz_id) = NoRow
              THEN HTTP404("Quiz not found")
              ELSE get_quiz_details(CatalogCorrect, quiz_id))
    /\ UNCHANGED <<users, attempts, answers, uuids, lastStart, submitted>>

\* SpecCatalog: the requests of SpecSeq and the quiz detail request.
NextCatalog ==
    \/ Idle /\ \E quiz_id \in QuizIdInputs : get_quiz(quiz_id)
    \/ NextSeq

SpecCatalog == Init /\ [][NextCatalog]_vars

(***************************************************************************)
(* SpecAnswers: the requests of SpecSeq, and SubmitAnswer also with a      *)
(* question of the other quiz and with an option of another question.      *)
(***************************************************************************)
OtherQuestionIdInputs == {1, SeededQuestions + 1}
OtherOptionIdInputs == {1, OptionsPerQuestion + 1}

NextAnswers ==
    \/ /\ Idle
       /\ \E a \in AttemptIdInputs, q \in OtherQuestionIdInputs,
             o \in OtherOptionIdInputs : submit_answer(a, q, o)
    \/ NextSeq

SpecAnswers == Init /\ [][NextAnswers]_vars

(***************************************************************************)
(* SpecAuth: the requests of the credential store, interleaved, from the   *)
(* two stored users and the attempt of user 1.                             *)
(***************************************************************************)
InitAuth ==
    /\ users = InitUsers
    /\ attempts = InitAttempts(1)
    /\ answers = << >>
    /\ uuids = 1
    /\ now = 0
    /\ inflight = {}
    /\ last = [req |-> NoReq, resp |-> NoResp]
    /\ lastStart = [k \in UserIds \X Quizzes |-> 0]
    /\ submitted = << >>

NextAuth ==
    \/ \E e \in EmailInputs, n \in UsernameInputs, p \in PasswordInputs :
          register(e, n, p)
    \/ \E r \in inflight : register_get_by_username(r)
    \/ \E r \in inflight : register_create(r)
    \/ \E e \in EmailInputs, p \in PasswordInputs : login(e, p)
    \/ \E c \in CookieInputs, b \in BearerInputs : get_current_user_profile(c, b)
    \/ \E u, v \in UserIds : delete_user(u, v)

SpecAuth == InitAuth /\ [][NextAuth]_vars

(***************************************************************************)
(* SpecProgress serves one request at a time from a database in which the  *)
(* attempt of user 1 has answers for the first n questions of its quiz,    *)
(* for every n up to the quiz's number of questions, each answer with the  *)
(* question's first listed option.                                         *)
(***************************************************************************)
FirstOptionCalls(quiz_id, n) ==
    [k \in 1..n |->
        <<get_questions_by_quiz(quiz_id)[k].id,
          get_options_by_question(get_questions_by_quiz(quiz_id)[k].id)[1].id>>]

InitProgress ==
    /\ users = InitUsers
    /\ \E quiz_id \in {1, 2} :
          /\ attempts = InitAttempts(quiz_id)
          /\ \E n \in 0..Len(get_questions_by_quiz(quiz_id)) :
                answers = InsertAll(InitAttempts(quiz_id),
                                    FirstOptionCalls(quiz_id, n), n)
    /\ uuids = 1
    /\ now = 0
    /\ inflight = {}
    /\ last = [req |-> NoReq, resp |-> NoResp]
    /\ lastStart = [k \in UserIds \X Quizzes |-> 0]
    /\ submitted = << >>

SpecProgress == InitProgress /\ [][NextSeq]_vars

(***************************************************************************)
(* Properties.  A step returns a request when it changes last: every       *)
(* request carries the time t of its first statement, which no other       *)
(* request shares.                                                         *)
(***************************************************************************)
Returns(ops) == last' # last /\ last'.req.op \in ops

AttemptIds(atts) == {a.id : a \in atts}

(***************************************************************************)
(* C1.  In every reachable state, whatever the interleaving of the lookup  *)
(* and the insert of StartOrResume requests, no (user, quiz) pair has more *)
(* than one attempt with is_completed = false.                             *)
(***************************************************************************)
C1_AtMostOneOngoingAttempt ==
    \A u \in UserIds, q \in Quizzes :
        Cardinality(OngoingRows(attempts, q, u)) <= 1

(***************************************************************************)
(* C2.  Requests served one after the other: when StartOrResume returns    *)
(* for a (user, quiz) whose previous StartOrResume returned attempt X, and *)
(* X is still stored and not completed, it returns X with is_resumed =     *)
(* true and the attempt rows (and the answer rows) are what they were.     *)
(***************************************************************************)
C2_SecondStartResumes ==
    [][\A u \in UserIds, q \in Quizzes :
        LET X == lastStart[<<u, q>>]
        IN  (/\ Returns({"start"})
             /\ last'.req.user_id = u /\ last'.req.quiz_id = q
             /\ X # 0
             /\ get_attempt_by_id(attempts, X) # NoRow
             /\ ~get_attempt_by_id(attempts, X).is_completed)
            => /\ last'.resp.http = 200
               /\ last'.resp.attempt_id = X
               /\ last'.resp.is_resumed
               /\ attempts' = attempts
               /\ answers' = answers]_vars

\* A second StartOrResume has resumed the attempt the first one created.
C2_Witness ==
    /\ last.req.op = "start"
    /\ last.resp.http = 200
    /\ last.resp.is_resumed
    /\ last.resp.attempt_id = 2
    /\ last.resp.user_id = 2
    /\ Cardinality(attempts) = 2

(***************************************************************************)
(* C3.  Requests served one after the other.  As stated: when              *)
(* StartOrResume returns for a known quiz and the (user, quiz) pair has no *)
(* uncompleted attempt, it has created exactly one attempt with a fresh    *)
(* id, total_questions = the quiz's number of questions, score 0 and       *)
(* is_completed false, returned it with is_resumed = false, and left every *)
(* other attempt and every answer as it was.                               *)
(***************************************************************************)
StartCreated(u, q) ==
    /\ last'.resp.http = 200
    /\ ~last'.resp.is_resumed
    /\ last'.resp.attempt_id \notin AttemptIds(attempts)
    /\ last'.resp.total_questions = Len(get_questions_by_quiz(q))
    /\ ~last'.resp.is_completed
    /\ \E a \in attempts' :
          /\ attempts' = attempts \cup {a}
          /\ a.id = last'.resp.attempt_id
          /\ a.user_id = u /\ a.quiz_id = q
          /\ a.total_questions = Len(get_questions_by_quiz(q))
          /\ a.score = 0
          /\ ~a.is_completed
    /\ Cardinality(attempts') = Cardinality(attempts) + 1
    /\ answers' = answers

StartWithoutOngoing(u, q) ==
    /\ Returns({"start"})
    /\ last'.req.user_id = u /\ last'.req.quiz_id = q
    /\ OngoingRows(attempts, q, u) = {}

C3_StartCreates_AsStated ==
    [][\A u \in UserIds, q \in Quizzes :
        StartWithoutOngoing(u, q) => StartCreated(u, q)]_vars

(***************************************************************************)
(* C3, amended.  The same, for a quiz that has at least one question and a *)
(* caller whose users row exists; for a quiz without questions or a caller *)
(* whose row is gone the INSERT is rejected (CHECK total_questions > 0,    *)
(* FOREIGN KEY user_id), the request fails and no row changes.             *)
(***************************************************************************)
C3_StartCreates ==
    [][\A u \in UserIds, q \in Quizzes :
        StartWithoutOngoing(u, q) =>
            IF u \in user_ids(users) /\ Len(get_questions_by_quiz(q)) > 0
            THEN StartCreated(u, q)
            ELSE /\ last'.resp.http = 500
                 /\ attempts' = attempts
                 /\ answers' = answers]_vars

\* StartOrResume has created a second attempt of user 1 next to a completed
\* one that still has its answers.
C3_Witness ==
    /\ last.req.op = "start"
    /\ last.resp.http = 200
    /\ ~last.resp.is_resumed
    /\ last.resp.attempt_id = 2
    /\ last.resp.user_id = 1
    /\ \E a \in attempts : a.id = 1 /\ a.is_completed /\ a.quiz_id = last.resp.quiz_id
    /\ Len(answers) > 0

(***************************************************************************)
(* C4.  A StartOrResume that names no quiz, and a SubmitQuiz, Progress or  *)
(* Result that names no stored attempt when it begins, returns NotFound    *)
(* (HTTP 404) in that step and no attempt or answer row changes.           *)
(***************************************************************************)
BegunRequest ==
    IF last'.req.t = now' THEN last'.req
    ELSE CHOOSE r \in inflight' : r.t = now'

C4_NotFoundChangesNothing ==
    [][now' # now =>
        LET r == BegunRequest
        IN  (\/ r.op = "start" /\ r.quiz_id \notin Quizzes
             \/ /\ r.op \in {"submit", "progress", "result"}
                /\ r.attempt_id \notin AttemptIds(attempts))
            => /\ last'.req.t = now'
               /\ last'.resp.http = 404
               /\ attempts' = attempts
               /\ answers' = answers]_vars

\* A SubmitQuiz for an attempt that user deletion removed has returned 404.
C4_Witness ==
    /\ last.req.op = "submit"
    /\ last.req.attempt_id = 1
    /\ last.resp.http = 404
    /\ attempts # {}

(***************************************************************************)
(* C5.  When SubmitAnswer or SubmitCameraAnswer returns for a stored,      *)
(* uncompleted attempt and a question that already has an answer row in    *)
(* that attempt, it returns the envelope ANSWER_ALREADY_EXISTS and the     *)
(* answer rows (their number and their selected options) are unchanged.    *)
(***************************************************************************)
Answered(ans, attempt_id, question_id) ==
    \E i \in DOMAIN ans : /\ ans[i].attempt_id = attempt_id
                          /\ ans[i].question_id = question_id

C5_RepeatedAnswerRejected ==
    [][(/\ Returns({"answer", "camera"})
        /\ get_attempt_by_id(attempts, last'.req.attempt_id) # NoRow
        /\ ~get_attempt_by_id(attempts, last'.req.attempt_id).is_completed
        /\ Answered(answers, last'.req.attempt_id, last'.req.question_id))
       => /\ last'.resp.http = 200
          /\ last'.resp.code = "ANSWER_ALREADY_EXISTS"
          /\ answers' = answers]_vars

\* A SubmitAnswer for an answered question of an uncompleted attempt has
\* ended in the unhandled AttributeError.
C5_Witness ==
    /\ last.req.op = "answer"
    /\ last.resp.http = 500
    /\ last.resp.error = "AttributeError"
    /\ Answered(answers, last.req.attempt_id, last.req.question_id)

(***************************************************************************)
(* C6.  In every reachable state no two answer rows have the same attempt  *)
(* and the same question.                                                  *)
(***************************************************************************)
C6_OneAnswerPerQuestion ==
    \A i, j \in DOMAIN answers :
        (/\ answers[i].attempt_id = answers[j].attempt_id
         /\ answers[i].question_id = answers[j].question_id) => i = j

\* A further answer to an answered question has been requested and the
\* attempt, which has other answers too, still has one row for it.
C6_Witness ==
    /\ last.req.op \in {"answer", "camera"}
    /\ Answered(answers, last.req.attempt_id, last.req.question_id)
    /\ Len(answers) >= 2

(***************************************************************************)
(* C7.  A SubmitAnswer or SubmitCameraAnswer that begins after a           *)
(* SubmitQuiz has completed on its attempt, the attempt still being        *)
(* stored, returns the envelope ATTEMPT_COMPLETED whatever question and    *)
(* option it names, and adds no answer row.                                *)
(***************************************************************************)
C7_NoAnswerAfterSubmit ==
    [][(/\ Returns({"answer", "camera"})
        /\ \E i \in DOMAIN submitted : submitted[i] = last'.req.attempt_id
        /\ last'.req.attempt_id \in AttemptIds(attempts))
       => /\ last'.resp.http = 200
          /\ last'.resp.code = "ATTEMPT_COMPLETED"
          /\ answers' = answers]_vars

\* A camera answer for a question that is not in the catalog was refused
\* on a submitted attempt.
C7_Witness ==
    /\ last.req.op = "camera"
    /\ last.req.question_id \notin Questions
    /\ \E i \in DOMAIN submitted : submitted[i] = last.req.attempt_id
    /\ last.resp.http = 200
    /\ last.resp.code = "ATTEMPT_COMPLETED"

(***************************************************************************)
(* C8.  Requests served one after the other: a SubmitQuiz on a stored      *)
(* attempt sets its score to the number of its answer rows whose selected  *)
(* option is the correct option of its question and is_completed to true,  *)
(* changes nothing else of it but submitted_at, changes no other attempt   *)
(* and no answer row; the score is at most the number of its answer rows.  *)
(***************************************************************************)
AnswersOf(ans, attempt_id) == {i \in DOMAIN ans : ans[i].attempt_id = attempt_id}

CorrectAnswersOf(ans, attempt_id) ==
    {i \in AnswersOf(ans, attempt_id) :
        ans[i].selected_option_id =
            CorrectOption(QuestionOfOption(ans[i].selected_option_id))}

C8_SubmitScores ==
    [][(/\ Returns({"submit"})
        /\ last'.req.attempt_id \in AttemptIds(attempts))
       => LET id == last'.req.attempt_id
              old == get_attempt_by_id(attempts, id)
              new == get_attempt_by_id(attempts', id)
          IN  /\ last'.resp.http = 200
              /\ new = [old EXCEPT
                           !.score = Cardinality(CorrectAnswersOf(answers, id)),
                           !.is_completed = TRUE,
                           !.submitted_at = new.submitted_at]
              /\ last'.resp.score = new.score
              /\ last'.resp.is_completed
              /\ new.score <= Cardinality(AnswersOf(answers, id))
              /\ attempts' \ {new} = attempts \ {old}
              /\ answers' = answers]_vars

\* A SubmitQuiz has scored an attempt with right and wrong answers.
C8_Witness ==
    /\ last.req.op = "submit"
    /\ last.resp.http = 200
    /\ last.resp.score >= 1
    /\ last.resp.score < Cardinality(AnswersOf(answers, last.req.attempt_id))
    /\ Cardinality(attempts) >= 2

(***************************************************************************)
(* C9.  Requests served one after the other: the percentage SubmitQuiz and *)
(* Result return is 100 * score / total_questions of the stored attempt,   *)
(* rounded to the nearest hundredth, whatever the number of answers; an    *)
(* attempt of 10 questions with 3 correct answers gives score 3 and 30.00, *)
(* and SubmitQuiz returns is_completed = true.                             *)
(***************************************************************************)
NearestHundredth(pct, part, total) ==
    LET d == pct * total - 10000 * part
    IN  2 * (IF d < 0 THEN -d ELSE d) <= total

C9_Percentage ==
    [][(Returns({"submit", "result"}) /\ last'.resp.http = 200)
       => LET row == get_attempt_by_id(attempts', last'.req.attempt_id)
          IN  /\ last'.resp.total_questions = row.total_questions
              /\ last'.resp.score = row.score
              /\ NearestHundredth(last'.resp.percentage, row.score,
                                  row.total_questions)
              /\ (row.total_questions = 10 /\ row.score = 3)
                    => last'.resp.percentage = 3000
              /\ last'.req.op = "submit" => last'.resp.is_completed]_vars

\* SubmitQuiz on an attempt of 10 questions with 3 answers, all correct.
C9_Witness ==
    /\ last.req.op = "submit"
    /\ last.resp.http = 200
    /\ last.resp.total_questions = 10
    /\ Cardinality(AnswersOf(answers, last.req.attempt_id)) = 3
    /\ last.resp.score = 3
    /\ last.resp.percentage = 3000
    /\ last.resp.is_completed

(***************************************************************************)
(* C10.  Requests served one after the other: a SubmitQuiz on a stored     *)
(* attempt that is already completed is served like the first one: it      *)
(* returns 200, recomputes the score and writes it, sets submitted_at to   *)
(* the time of the request and leaves is_completed true; no answer row     *)
(* having been added since, the score is the previous score.               *)
(***************************************************************************)
C10_Resubmit ==
    [][(/\ Returns({"submit"})
        /\ get_attempt_by_id(attempts, last'.req.attempt_id) # NoRow
        /\ get_attempt_by_id(attempts, last'.req.attempt_id).is_completed)
       => LET id == last'.req.attempt_id
              old == get_attempt_by_id(attempts, id)
              new == get_attempt_by_id(attempts', id)
          IN  /\ last'.resp.http = 200
              /\ new.is_completed
              /\ new.score = Cardinality(CorrectAnswersOf(answers, id))
              /\ new.score = old.score
              /\ new.submitted_at = last'.req.t
              /\ new.submitted_at > old.submitted_at
              /\ last'.resp.score = new.score
              /\ last'.resp.submitted_at = new.submitted_at
              /\ last'.resp.is_completed]_vars

\* The last two SubmitQuiz calls that completed were on the same attempt,
\* which has a correct answer.
C10_Witness ==
    /\ last.req.op = "submit"
    /\ last.resp.http = 200
    /\ Len(submitted) >= 2
    /\ submitted[Len(submitted)] = last.req.attempt_id
    /\ submitted[Len(submitted) - 1] = last.req.attempt_id
    /\ last.resp.score >= 1

(***************************************************************************)
(* C11.  Every SubmitAnswer and SubmitCameraAnswer, whatever attempt,      *)
(* question and option it names, returns an envelope whose code is         *)
(* SUCCESS, ATTEMPT_NOT_FOUND, ATTEMPT_COMPLETED, ANSWER_ALREADY_EXISTS or *)
(* INVALID_DATA; none ends in an error raised instead.                     *)
(***************************************************************************)
C11_AnswerReturnsEnvelope ==
    [][Returns({"answer", "camera"})
       => /\ last'.resp.http = 200
          /\ last'.resp.code \in {"SUCCESS", "ATTEMPT_NOT_FOUND",
                                  "ATTEMPT_COMPLETED", "ANSWER_ALREADY_EXISTS",
                                  "INVALID_DATA"}]_vars

\* A SubmitCameraAnswer for a question without an answer, on a stored
\* uncompleted attempt, has ended in the unhandled AttributeError.
C11_Witness ==
    /\ last.req.op = "camera"
    /\ last.req.question_id \in Questions
    /\ ~Answered(answers, last.req.attempt_id, last.req.question_id)
    /\ last.resp.http = 500
    /\ last.resp.error = "AttributeError"

(***************************************************************************)
(* C12.  Requests served one after the other: Progress on a stored attempt *)
(* returns answered_questions = the number of the attempt's answer rows,   *)
(* remaining_questions = total_questions - answered_questions and          *)
(* progress_percentage = 100 * answered_questions / total_questions to the *)
(* nearest hundredth (0.00 for 0 of 10, 100.00 for 10 of 10), with one     *)
(* answered_details entry per answer row of the attempt in the order the   *)
(* rows were created; no step of Progress changes an attempt or answer row.*)
(***************************************************************************)
RowOfAnswer(ans, answer_id) == CHOOSE k \in DOMAIN ans : ans[k].id = answer_id

C12_Progress ==
    [][/\ (/\ Returns({"progress"})
           /\ last'.req.attempt_id \in AttemptIds(attempts))
          => LET id == last'.req.attempt_id
                 row == get_attempt_by_id(attempts, id)
                 n == Cardinality(AnswersOf(answers, id))
                 details == last'.resp.answered_details
             IN  /\ last'.resp.http = 200
                 /\ last'.resp.total_questions = row.total_questions
                 /\ last'.resp.answered_questions = n
                 /\ last'.resp.remaining_questions = row.total_questions - n
                 /\ NearestHundredth(last'.resp.progress_percentage, n,
                                     row.total_questions)
                 /\ (row.total_questions = 10 /\ n = 0)
                       => last'.resp.progress_percentage = 0
                 /\ (row.total_questions = 10 /\ n = 10)
                       => last'.resp.progress_percentage = 10000
                 /\ Len(details) = n
                 /\ \A i \in DOMAIN details :
                       /\ \E k \in AnswersOf(answers, id) :
                             answers[k].id = details[i].answer_id
                       /\ details[i].question_id =
                             answers[RowOfAnswer(answers, details[i].answer_id)].question_id
                       /\ details[i].selected_option_id =
                             answers[RowOfAnswer(answers, details[i].answer_id)].selected_option_id
                 /\ \A i, j \in DOMAIN details :
                       i < j => RowOfAnswer(answers, details[i].answer_id)
                                    < RowOfAnswer(answers, details[j].answer_id)
       /\ (\/ Returns({"progress"})
           \/ \E r \in inflight' : r.op = "progress" /\ r \notin inflight)
          => attempts' = attempts /\ answers' = answers]_vars

\* Progress on an attempt of 10 questions that has all 10 answered.
C12_Witness ==
    /\ last.req.op = "progress"
    /\ last.resp.http = 200
    /\ last.resp.total_questions = 10
    /\ last.resp.answered_questions = 10
    /\ last.resp.remaining_questions = 0
    /\ last.resp.progress_percentage = 10000
    /\ Len(last.resp.answered_details) = 10

(***************************************************************************)
(* C13.  No response about an attempt that is stored and not completed     *)
(* carries the is_correct flag of an option: neither as a field of the     *)
(* response nor in an entry of its answered_details or answers.            *)
(***************************************************************************)
CarriesCorrectness(resp) ==
    \/ "is_correct" \in DOMAIN resp
    \/ /\ "answered_details" \in DOMAIN resp
       /\ \E i \in DOMAIN resp.answered_details :
             "is_correct" \in DOMAIN resp.answered_details[i]
    \/ /\ "answers" \in DOMAIN resp
       /\ \E i \in DOMAIN resp.answers : "is_correct" \in DOMAIN resp.answers[i]

AttemptOfResponse(l) ==
    IF l.req.op = "start" THEN l.resp.attempt_id ELSE l.req.attempt_id

C13_CorrectnessHiddenBeforeCompletion ==
    [][(/\ Returns({"start", "answer", "camera", "progress", "result"})
        /\ last'.resp.http = 200
        /\ AttemptOfResponse(last') \in AttemptIds(attempts')
        /\ ~get_attempt_by_id(attempts', AttemptOfResponse(last')).is_completed)
       => ~CarriesCorrectness(last'.resp)]_vars

\* Progress on an uncompleted attempt returned the stored flag of the option
\* selected for an answered question.
C13_Witness ==
    /\ last.req.op = "progress"
    /\ last.resp.http = 200
    /\ ~last.resp.is_completed
    /\ \E i \in DOMAIN last.resp.answered_details :
          /\ "is_correct" \in DOMAIN last.resp.answered_details[i]
          /\ last.resp.answered_details[i].is_correct
                = get_option_by_id(
                      last.resp.answered_details[i].selected_option_id).is_correct

(***************************************************************************)
(* C14.  The quiz detail response of a stored quiz lists every question of *)
(* the quiz and, for each, every option of the question exactly once, each *)
(* option with the fields id, content and category and no other; and it is *)
(* the response computed from any catalog that differs from the stored one *)
(* only in which options are correct.                                      *)
(***************************************************************************)
OtherCorrectSets ==
    {CatalogCorrect \cup {o} : o \in Options}
       \cup {CatalogCorrect \ {o} : o \in Options}
       \cup {{}, Options, Options \ CatalogCorrect}

C15_CameraFlagScored ==
    [][(/\ Returns({"camera"})
        /\ last'.req.attempt_id \in AttemptIds(attempts)
        /\ ~get_attempt_by_id(attempts, last'.req.attempt_id).is_completed
        /\ last'.req.question_id \in Questions
        /\ ~Answered(answers, last'.req.attempt_id, last'.req.question_id))
       => /\ last'.resp.http = 200
          /\ last'.resp.code = "SUCCESS"
          /\ Answered(answers', last'.req.attempt_id, last'.req.question_id)
          /\ \A k \in AnswersOf(answers', last'.req.attempt_id) :
                answers'[k].question_id = last'.req.question_id
                   => get_option_by_id(answers'[k].selected_option_id).is_correct
                         = last'.req.is_correct]_vars

\* A camera answer with is_correct true for an unanswered question of an
\* uncompleted attempt ended in the exception and stored nothing.
C15_Witness ==
    /\ last.req.op = "camera"
    /\ last.req.is_correct
    /\ last.req.attempt_id \in AttemptIds(attempts)
    /\ ~get_attempt_by_id(attempts, last.req.attempt_id).is_completed
    /\ last.req.question_id \in Questions
    /\ ~Answered(answers, last.req.attempt_id, last.req.question_id)
    /\ last.resp = Raised("AttributeError")

(***************************************************************************)
(* C16.  In every reachable state of the credential store, with the two    *)
(* lookups and the insert of concurrent Registers interleaved in any way,  *)
(* no two users rows share an email or a username.                         *)
(***************************************************************************)
C16_UniqueCredentials ==
    \A u, v \in users :
        u # v => u.email # v.email /\ u.username # v.username

\* Two Registers passed their lookups together; the insert of the second
\* was rejected and the row of the first is stored.
C16_Witness ==
    /\ last.req.op = "register"
    /\ last.resp = Raised("IntegrityError")
    /\ \E u \in users :
          /\ u.id > NumUsers
          /\ u.email = last.req.email \/ u.username = last.req.username

(***************************************************************************)
(* C17.  A Register that finds its email stored fails at once with "Email  *)
(* already registered", whether or not its username is stored too, and     *)
(* does not go on to the username lookup; one that then                    *)
(* finds its username stored fails with "Username already taken".  A       *)
(* Register that fails leaves the users table as it was and its response   *)
(* carries neither a token nor a cookie.                                   *)
(***************************************************************************)
RegisterStage(pc) ==
    \E r \in inflight : r.pc = pc /\ [r EXCEPT !.pc = "return"] = last'.req

C17_RegisterConflict ==
    [][/\ \A r \in inflight' \ inflight :
             (r.op = "register" /\ now' # now)
                => \A u \in users : u.email # r.email
       /\ Returns({"register"})
          => /\ (now' # now /\ \E u \in users : u.email = last'.req.email)
                   => last'.resp = HTTP400("Email already registered")
             /\ (now' # now) => last'.resp.http = 400
             /\ (/\ RegisterStage("get_by_username")
                 /\ \E u \in users : u.username = last'.req.username)
                   => last'.resp = HTTP400("Username already taken")
             /\ last'.resp.http # 200
                   => /\ users' = users
                      /\ "access_token" \notin DOMAIN last'.resp
                      /\ "cookie" \notin DOMAIN last'.resp
             /\ last'.resp.http = 200
                   => /\ \A u \in users : /\ u.email # last'.req.email
                                          /\ u.username # last'.req.username
                      /\ Cardinality(users') = Cardinality(users) + 1
                      /\ \E u \in users' \ users :
                            /\ u.email = last'.req.email
                            /\ u.username = last'.req.username
                            /\ last'.resp.access_token.sub = u.id
                            /\ last'.resp.cookie = last'.resp.access_token]_vars

\* A Register whose email and username are both stored (for two different
\* users) failed on the email.
C17_Witness ==
    /\ last.req.op = "register"
    /\ \E u, v \in users :
          /\ u # v
          /\ u.email = last.req.email
          /\ v.username = last.req.username
    /\ last.resp = HTTP400("Email already registered")

(***************************************************************************)
(* C18.  Login returns a token whose subject is the user's id, and sets    *)
(* it as the cookie, exactly when a users row has the email and its hash   *)
(* is the hash of the password; with an unknown email and with a wrong     *)
(* password it fails 401 with one and the same response, without a cookie. *)
(* Login changes no row.                                                   *)
(***************************************************************************)
C18_Login ==
    [][Returns({"login"})
       => LET matching ==
                  {u \in users :
                      /\ u.email = last'.req.email
                      /\ u.hashed_password
                            = hash_password(last'.req.password,
                                            u.hashed_password.salt)}
          IN  /\ matching # {}
                    => /\ last'.resp.http = 200
                       /\ last'.resp.cookie = last'.resp.access_token
                       /\ last'.resp.access_token.signed
                       /\ last'.resp.access_token.exp > now'
                       /\ \E u \in matching :
                             /\ last'.resp.access_token.sub = u.id
                             /\ last'.resp.user.id = u.id
              /\ matching = {}
                    => /\ last'.resp = HTTP401("Invalid email or password")
                       /\ "cookie" \notin DOMAIN last'.resp
              /\ users' = users
              /\ attempts' = attempts
              /\ answers' = answers]_vars

\* A user who registered during the behaviour logged in with another
\* password than the registered one and was refused.
C18_Witness ==
    /\ last.req.op = "login"
    /\ \E u \in users :
          /\ u.id > NumUsers
          /\ u.email = last.req.email
          /\ u.hashed_password.digest # last.req.password
    /\ last.resp = HTTP401("Invalid email or password")

(***************************************************************************)
(* C19.  get_current_user authenticates with the access_token cookie       *)
(* whenever the cookie is not empty and with the bearer credentials only   *)
(* when the cookie is absent or empty: a request is refused 401 exactly    *)
(* when the token so chosen is absent, empty, badly signed, expired or     *)
(* without subject, and is otherwise served for the chosen token's         *)
(* subject.  So an invalid or expired cookie with a valid bearer token is  *)
(* refused, and so is a request with neither.                              *)
(***************************************************************************)
Acceptable(token, t) ==
    /\ token.kind = "jwt"
    /\ token.signed
    /\ token.exp > t
    /\ token.sub # 0

C19_CookieFirst ==
    [][Returns({"me"})
       => LET cookie == last'.req.cookie
              bearer == last'.req.bearer
              chosen == IF cookie.kind = "jwt" THEN cookie ELSE bearer
          IN  /\ last'.resp.http = 401 <=> ~Acceptable(chosen, now')
              /\ Acceptable(chosen, now')
                    => last'.resp = get_user(users, chosen.sub)
              /\ (cookie.kind = "jwt" /\ ~Acceptable(cookie, now')
                                      /\ Acceptable(bearer, now'))
                    => last'.resp.http = 401
              /\ (cookie.kind # "jwt" /\ bearer.kind # "jwt")
                    => last'.resp.http = 401]_vars

\* A request with an expired cookie and a valid bearer token was refused.
C19_Witness ==
    /\ last.req.op = "me"
    /\ last.req.cookie.kind = "jwt"
    /\ last.req.cookie.signed
    /\ last.req.cookie.exp <= now
    /\ Acceptable(last.req.bearer, now)
    /\ last.resp.http = 401

(***************************************************************************)
(* C20.  SubmitAnswer and SubmitCameraAnswer decide in a fixed order: an   *)
(* attempt that is not stored gives ATTEMPT_NOT_FOUND; otherwise a         *)
(* completed attempt gives ATTEMPT_COMPLETED, whatever the question and    *)
(* option; otherwise a question that already has an answer gives           *)
(* ANSWER_ALREADY_EXISTS, whatever the option; only then does an unknown   *)
(* question or option give INVALID_DATA.                                   *)
(***************************************************************************)
C20_GuardOrder ==
    [][Returns({"answer", "camera"})
       => LET req == last'.req
              attempt == get_attempt_by_id(attempts, req.attempt_id)
              code == IF attempt = NoRow THEN "ATTEMPT_NOT_FOUND"
                      ELSE IF attempt.is_completed THEN "ATTEMPT_COMPLETED"
                      ELSE IF Answered(answers, req.attempt_id, req.question_id)
                           THEN "ANSWER_ALREADY_EXISTS"
                      ELSE IF \/ req.question_id \notin Questions
                              \/ req.op = "answer" /\ req.option_id \notin Options
                           THEN "INVALID_DATA"
                      ELSE "SUCCESS"
          IN  /\ last'.resp.http = 200
              /\ last'.resp.code = code]_vars

\* SubmitAnswer with an unknown option for an answered question of an
\* uncompleted attempt ended in the exception.
C20_Witness ==
    /\ last.req.op = "answer"
    /\ last.req.option_id \notin Options
    /\ last.req.attempt_id \in AttemptIds(attempts)
    /\ ~get_attempt_by_id(attempts, last.req.attempt_id).is_completed
    /\ Answered(answers, last.req.attempt_id, last.req.question_id)
    /\ last.resp = Raised("AttributeError")

(***************************************************************************)
(* C21.  A SubmitAnswer for a stored, uncompleted attempt, a known         *)
(* question without answer and a known option returns SUCCESS with the     *)
(* stored is_correct of the option and adds exactly one answer row, that   *)
(* of (attempt, question, option), leaving every attempt row as it was;    *)
(* any other SubmitAnswer changes no attempt row and no answer row.        *)
(***************************************************************************)
PassesGuards(req) ==
    /\ req.attempt_id \in AttemptIds(attempts)
    /\ ~get_attempt_by_id(attempts, req.attempt_id).is_completed
    /\ ~Answered(answers, req.attempt_id, req.question_id)
    /\ req.question_id \in Questions
    /\ req.op = "answer" => req.option_id \in Options

C21_AnswerRecorded ==
    [][Returns({"answer"})
       => /\ attempts' = attempts
          /\ IF PassesGuards(last'.req)
             THEN /\ last'.resp.http = 200
                  /\ last'.resp.code = "SUCCESS"
                  /\ last'.resp.is_correct
                        = get_option_by_id(last'.req.option_id).is_correct
                  /\ Len(answers') = Len(answers) + 1
                  /\ SubSeq(answers', 1, Len(answers)) = answers
                  /\ answers'[Len(answers')].attempt_id = last'.req.attempt_id
                  /\ answers'[Len(answers')].question_id = last'.req.question_id
                  /\ answers'[Len(answers')].selected_option_id
                        = last'.req.option_id
             ELSE answers' = answers]_vars

\* A SubmitAnswer that passes every guard, with an option of its question,
\* ended in the exception and the answers are those stored at the start.
C21_Witness ==
    /\ last.req.op = "answer"
    /\ PassesGuards(last.req)
    /\ QuestionOfOption(last.req.option_id) = last.req.question_id
    /\ last.resp = Raised("AttributeError")
    /\ answers \in InitAnswers(1) \cup InitAnswers(2)

(***************************************************************************)
(* C22.  A SubmitCameraAnswer for a stored, uncompleted attempt and a      *)
(* known question without answer returns SUCCESS with the caller's         *)
(* is_correct and adds one answer row whose selected option is the first   *)
(* option of the question in creation order.                               *)
(***************************************************************************)
C22_CameraFirstOption ==
    [][(Returns({"camera"}) /\ PassesGuards(last'.req))
       => /\ last'.resp.http = 200
          /\ last'.resp.code = "SUCCESS"
          /\ last'.resp.is_correct = last'.req.is_correct
          /\ Len(answers') = Len(answers) + 1
          /\ answers'[Len(answers')].attempt_id = last'.req.attempt_id
          /\ answers'[Len(answers')].question_id = last'.req.question_id
          /\ answers'[Len(answers')].selected_option_id
                = get_options_by_question(last'.req.question_id)[1].id]_vars

\* A SubmitCameraAnswer with is_correct false that passes every guard ended
\* in the exception.
C22_Witness ==
    /\ last.req.op = "camera"
    /\ ~last.req.is_correct
    /\ PassesGuards(last.req)
    /\ last.resp = Raised("AttributeError")
    /\ ~Answered(answers, last.req.attempt_id, last.req.question_id)

(***************************************************************************)
(* C23.  The answers and camera-answers endpoints answer 404 when the      *)
(* attempt is not stored or the question (for answers: or the option) is   *)
(* unknown, and answer with the top-level status "success" only when the   *)
(* request added an answer row.                                            *)
(***************************************************************************)
C23_AnswerNotFound ==
    [][Returns({"answer", "camera"})
       => /\ (\/ last'.req.attempt_id \notin AttemptIds(attempts)
              \/ last'.req.question_id \notin Questions
              \/ last'.req.op = "answer" /\ last'.req.option_id \notin Options)
                => last'.resp.http = 404
          /\ (last'.resp.http = 200 /\ last'.resp.status = "success")
                => Len(answers') = Len(answers) + 1]_vars

\* A SubmitAnswer for an attempt that is not stored was answered 200 with
\* status "success" and the code ATTEMPT_NOT_FOUND inside the data.
C23_Witness ==
    /\ last.req.op = "answer"
    /\ last.req.attempt_id \notin AttemptIds(attempts)
    /\ last.resp.http = 200
    /\ last.resp.status = "success"
    /\ last.resp.code = "ATTEMPT_NOT_FOUND"

C26_CompletedScoreIsStable ==
    /\ [](\A a \in attempts :
             a.is_completed
                => a.score = Cardinality(CorrectAnswersOf(answers, a.id)))
    /\ [][\A a \in attempts :
             a.is_completed
                => {answers'[i] : i \in AnswersOf(answers', a.id)}
                      \subseteq {answers[i] : i \in AnswersOf(answers, a.id)}]_vars

\* A SubmitAnswer got past the completion check of an attempt while a
\* SubmitQuiz of the same attempt had read the answers and not yet written
\* the score.
C26_Witness ==
    /\ last.req.op \in {"answer", "camera"}
    /\ last.resp = Raised("AttributeError")
    /\ \E r \in inflight :
          /\ r.op = "submit"
          /\ r.pc = "update_attempt_score"
          /\ r.attempt_id = last.req.attempt_id
          /\ r.t < last.req.t
          /\ r.n > 0

(***************************************************************************)
(* C27.  No step turns is_completed of a stored attempt from true to       *)
(* false or changes the quiz, the user or total_questions of a stored      *)
(* attempt; and the attempt a StartOrResume returns as resumed is not      *)
(* completed.                                                              *)
(***************************************************************************)
C27_CompletionIsMonotone ==
    [][/\ \A a \in attempts, b \in attempts' :
             a.id = b.id
                => /\ a.is_completed => b.is_completed
                   /\ b.quiz_id = a.quiz_id
                   /\ b.user_id = a.user_id
                   /\ b.total_questions = a.total_questions
       /\ (/\ Returns({"start"})
           /\ last'.resp.http = 200
           /\ last'.resp.is_resumed)
          => /\ ~last'.resp.is_completed
             /\ last'.resp.attempt_id \in AttemptIds(attempts')
             /\ ~get_attempt_by_id(attempts', last'.resp.attempt_id).is_completed]_vars

\* StartOrResume returned a new attempt for a user and quiz whose earlier
\* attempt is stored completed.
C27_Witness ==
    /\ last.req.op = "start"
    /\ last.resp.http = 200
    /\ ~last.resp.is_resumed
    /\ \E a \in attempts :
          /\ a.user_id = last.req.user_id
          /\ a.quiz_id = last.req.quiz_id
          /\ a.is_completed
          /\ a.id # last.resp.attempt_id

(***************************************************************************)
(* C28.  In every reachable state every attempt row has total_questions    *)
(* >= 1 (the divisor of the percentage of SubmitQuiz and Result); a        *)
(* StartOrResume on a stored quiz without questions does not return an     *)
(* attempt and leaves the attempt rows as they were.                       *)
(***************************************************************************)
C28_TotalQuestionsPositive ==
    /\ [](\A a \in attempts : a.total_questions >= 1)
    /\ [][(/\ Returns({"start"})
           /\ last'.req.quiz_id \in Quizzes
           /\ Len(get_questions_by_quiz(last'.req.quiz_id)) = 0)
          => /\ last'.resp.http # 200
             /\ attempts' = attempts]_vars

\* The insert of a StartOrResume on the quiz without questions, by a user
\* whose row is stored, was rejected.
C28_Witness ==
    /\ last.req.op = "start"
    /\ last.req.quiz_id \in Quizzes
    /\ Len(get_questions_by_quiz(last.req.quiz_id)) = 0
    /\ last.req.user_id \in user_ids(users)
    /\ last.resp.http = 500
    /\ \A a \in attempts : a.quiz_id # last.req.quiz_id

(***************************************************************************)
(* C29.  A SubmitAnswer, SubmitCameraAnswer or SubmitQuiz whose caller is  *)
(* not the user of the attempt (the request carries no identity, or that   *)
(* of another user) adds no answer row and leaves the attempt's score and  *)
(* is_completed as they were.                                              *)
(***************************************************************************)
C29_OnlyOwnerChangesAttempt ==
    [][(/\ Returns({"answer", "camera", "submit"})
        /\ last'.req.attempt_id \in AttemptIds(attempts)
        /\ last'.req.user_id
              # get_attempt_by_id(attempts, last'.req.attempt_id).user_id)
       => /\ answers' = answers
          /\ \A b \in attempts' :
                b.id = last'.req.attempt_id
                   => /\ b.score
                            = get_attempt_by_id(attempts, b.id).score
                      /\ b.is_completed
                            = get_attempt_by_id(attempts, b.id).is_completed]_vars

\* A SubmitQuiz that carried no identity completed the attempt of user 1
\* and set its score.
C29_Witness ==
    /\ last.req.op = "submit"
    /\ last.req.user_id \notin UserIds
    /\ last.resp.http = 200
    /\ last.resp.user_id = 1
    /\ last.resp.is_completed
    /\ last.resp.score > 0
    /\ \E a \in attempts : a.id = last.req.attempt_id /\ a.is_completed

=============================================================================
